---- MODULE Spec2Model ----
(***************************************************************************)
(* A model of m3u-epg-editor.py: the playlist parser (parse_m3u, M3uItem), *)
(* the group filter (prune_m3u_entries), the playlist serializer           *)
(* (save_new_m3u), the guide correlator (create_new_epg) and the pipeline  *)
(* that main() runs over them.                                             *)
(*                                                                         *)
(* A Python string is a sequence of one-character strings, so that the     *)
(* prefix tests, the splits, the regular-expression searches and strip()   *)
(* are computed character by character.  A text file is a sequence of      *)
(* lines (the line terminators are what separates them).                   *)
(***************************************************************************)
EXTENDS Integers, Sequences, FiniteSets, TLC

\* ------------------------------------------------------------------ bounds
MaxLines == 4
MaxRecords == 2
MaxElems == 3

\* --------------------------------------------------------- Python values
\* Python's None.  Every character of a string has length one, so no string
\* equals this value.
NoneVal == <<"NoneType">>

\* The values of a name that holds a list, when it holds none.  Each is a
\* sequence longer than any list of the model, so that it differs from every
\* list of records, of lines and of elements.
Mark(what) == [i \in 1..24 |-> what]

\* None, where a list is expected.
NoneList == Mark("None")

\* A name that is not bound (yet, or any more).
Unbound == Mark("unbound")

\* A file that was never written.
NoFile == Mark("no file")

\* A file that was written, and whose reader is closed or gone.
Closed == Mark("closed")

\* A download that is no XML document.
Malformed == Mark("not well-formed")

HTTP_OK == 200

HEADER == <<"#", "E", "X", "T", "M", "3", "U">>
EXTINF == <<"#", "E", "X", "T", "I", "N", "F", ":">>
EXTINF_SEP == <<"#", "E", "X", "T", "I", "N", "F", ":", "-", "1", " ">>
EXTINF_OUT == <<"#", "E", "X", "T", "I", "N", "F", ":", "-", "1">>
RE_TVG_NAME == <<"t", "v", "g", "-", "n", "a", "m", "e", "=", "\"">>
RE_TVG_ID == <<"t", "v", "g", "-", "i", "d", "=", "\"">>
RE_TVG_LOGO == <<"t", "v", "g", "-", "l", "o", "g", "o", "=", "\"">>
RE_GROUP_TITLE == <<"g", "r", "o", "u", "p", "-", "t", "i", "t", "l", "e", "=", "\"">>
QUOTE == <<"\"">>
COMMA == <<",">>
SPACE == <<" ">>
NONE_STR == <<"N", "o", "n", "e">>

Whitespace == {" ", "\t", "\n", "\r"}

UpperCase == <<"A", "B", "C", "D", "E", "F", "G", "H", "I", "J", "K", "L", "M",
               "N", "O", "P", "Q", "R", "S", "T", "U", "V", "W", "X", "Y", "Z">>
LowerCase == <<"a", "b", "c", "d", "e", "f", "g", "h", "i", "j", "k", "l", "m",
               "n", "o", "p", "q", "r", "s", "t", "u", "v", "w", "x", "y", "z">>

\* The printable characters in code-point order (32 .. 126).  The backslash
\* (92) and the backquote (96) are held by the placeholders bs and bt, which
\* no character equals.
Ascii == <<" ", "!", "\"", "#", "$", "%", "&", "'", "(", ")", "*", "+", ",", "-",
           ".", "/", "0", "1", "2", "3", "4", "5", "6", "7", "8", "9", ":", ";",
           "<", "=", ">", "?", "@", "A", "B", "C", "D", "E", "F", "G", "H", "I",
           "J", "K", "L", "M", "N", "O", "P", "Q", "R", "S", "T", "U", "V", "W",
           "X", "Y", "Z", "[", "bs", "]", "^", "_", "bt", "a", "b", "c", "d", "e",
           "f", "g", "h", "i", "j", "k", "l", "m", "n", "o", "p", "q", "r", "s",
           "t", "u", "v", "w", "x", "y", "z", "{", "|", "}", "~">>

\* ------------------------------------------------------- string functions
\* str.startswith
StartsWith(s, p) ==
    /\ Len(p) <= Len(s)
    /\ SubSeq(s, 1, Len(p)) = p

\* The least index >= from at which p occurs in s; 0 when there is none.
RECURSIVE Find(_, _, _)
Find(s, p, from) ==
    IF from + Len(p) - 1 > Len(s) THEN 0
    ELSE IF SubSeq(s, from, from + Len(p) - 1) = p THEN from
    ELSE Find(s, p, from + 1)

RECURSIVE LStrip(_)
LStrip(s) ==
    IF s # <<>> /\ Head(s) \in Whitespace THEN LStrip(Tail(s)) ELSE s

RECURSIVE RStrip(_)
RStrip(s) ==
    IF s # <<>> /\ s[Len(s)] \in Whitespace
    THEN RStrip(SubSeq(s, 1, Len(s) - 1))
    ELSE s

\* str.strip
Strip(s) == RStrip(LStrip(s))

LowerChar(c) ==
    IF \E i \in 1..Len(UpperCase) : UpperCase[i] = c
    THEN LowerCase[CHOOSE i \in 1..Len(UpperCase) : UpperCase[i] = c]
    ELSE c

\* str.lower
Lower(s) == [i \in 1..Len(s) |-> LowerChar(s[i])]

Ord(c) == 31 + (CHOOSE i \in 1..Len(Ascii) : Ascii[i] = c)

\* s < t for two strings: the first differing character decides, a proper
\* prefix is smaller.
RECURSIVE StrLess(_, _)
StrLess(s, t) ==
    IF t = <<>> THEN FALSE
    ELSE IF s = <<>> THEN TRUE
    ELSE IF Head(s) = Head(t) THEN StrLess(Tail(s), Tail(t))
    ELSE Ord(Head(s)) < Ord(Head(t))

\* The order sorted() uses on keys: None sorts before every string.
KeyLess(a, b) ==
    IF b = NoneVal THEN FALSE
    ELSE IF a = NoneVal THEN TRUE
    ELSE StrLess(a, b)

\* s.split(sep)[1]: the text between the first and the second occurrence of
\* sep.  NoneVal stands for the IndexError of a list with one element.
Split1(s, sep) ==
    LET i == Find(s, sep, 1)
        start == i + Len(sep)
        j == Find(s, sep, start)
    IN  IF i = 0 THEN NoneVal
        ELSE IF j = 0 THEN SubSeq(s, start, Len(s))
        ELSE SubSeq(s, start, j - 1)

\* re.search of a pattern key, lazy group, closing quote: group 1 of the
\* first match, NoneVal when nothing matches.  key ends with the opening quote.
ReSearch(key, s) ==
    LET i == Find(s, key, 1)
        start == i + Len(key)
        j == Find(s, QUOTE, start)
    IN  IF i = 0 \/ j = 0 THEN NoneVal
        ELSE SubSeq(s, start, j - 1)

\* the %s conversion of a value
Str(v) == IF v = NoneVal THEN NONE_STR ELSE v

\* ------------------------------------------------------------------ M3uItem
EmptyItem ==
    [tvg_name |-> NoneVal, tvg_id |-> NoneVal, tvg_logo |-> NoneVal,
     group_title |-> NoneVal, name |-> NoneVal, url |-> NoneVal]

\* A constructor that gives a missing attribute the empty string.
M3uItemDefaulting(m3u_fields) ==
    LET Got(key) == LET v == ReSearch(key, m3u_fields)
                    IN  IF v = NoneVal THEN <<>> ELSE v
        nm == Split1(m3u_fields, COMMA)
    IN  IF nm = NoneVal THEN [raised |-> "IndexError"]
        ELSE [raised |-> "",
              item |-> [tvg_name |-> Got(RE_TVG_NAME), tvg_id |-> Got(RE_TVG_ID),
                        tvg_logo |-> Got(RE_TVG_LOGO),
                        group_title |-> Got(RE_GROUP_TITLE),
                        name |-> nm, url |-> NoneVal]]

\* M3uItem(m3u_fields) for a string: the item, or the name of the exception
\* the constructor raises.
M3uItem(m3u_fields) ==
    LET tn == ReSearch(RE_TVG_NAME, m3u_fields)
        ti == ReSearch(RE_TVG_ID, m3u_fields)
        tl == ReSearch(RE_TVG_LOGO, m3u_fields)
        gt == ReSearch(RE_GROUP_TITLE, m3u_fields)
        nm == Split1(m3u_fields, COMMA)
    IN  IF tn = NoneVal \/ ti = NoneVal \/ tl = NoneVal \/ gt = NoneVal
        THEN [raised |-> "AttributeError"]
        ELSE IF nm = NoneVal THEN [raised |-> "IndexError"]
        ELSE [raised |-> "",
              item |-> [tvg_name |-> tn, tvg_id |-> ti, tvg_logo |-> tl,
                        group_title |-> gt, name |-> nm, url |-> NoneVal]]

\* ---------------------------------------------------------------- parse_m3u
\* One iteration of the loop over the file's lines, on the parser's locals.
ParseLineStep(acc, cur, rawline) ==
    LET line == Strip(rawline)
    IN  IF StartsWith(line, EXTINF)
        THEN LET m3u_fields == Split1(line, EXTINF_SEP)
             IN  IF m3u_fields = NoneVal
                 THEN [raised |-> "IndexError", acc |-> acc, cur |-> cur]
                 ELSE LET made == M3uItem(m3u_fields)
                      IN  IF made.raised # ""
                          THEN [raised |-> made.raised, acc |-> acc, cur |-> cur]
                          ELSE [raised |-> "", acc |-> acc, cur |-> made.item]
        ELSE IF Len(line) # 0
        THEN [raised |-> "",
              acc |-> Append(acc, [cur EXCEPT !.url = line]),
              cur |-> EmptyItem]
        ELSE [raised |-> "", acc |-> acc, cur |-> cur]

RECURSIVE ParseLines(_, _, _)
ParseLines(acc, cur, lines) ==
    IF lines = <<>> THEN [raised |-> "", value |-> acc]
    ELSE LET r == ParseLineStep(acc, cur, Head(lines))
         IN  IF r.raised # "" THEN [raised |-> r.raised, value |-> NoneList]
             ELSE ParseLines(r.acc, r.cur, Tail(lines))

\* f.readline() on a file whose unread lines are text.
ReadLine(text) == IF text = <<>> THEN <<>> ELSE Head(text)

\* A header test that looks at the first four characters only.
HeaderOkShort(line) == StartsWith(line, <<"#", "E", "X", "T">>)

\* line.startswith of the header
HeaderOk(line) == StartsWith(line, HEADER)

\* parse_m3u on a whole file.
parse_m3u(text) ==
    IF ~HeaderOk(ReadLine(text)) THEN [raised |-> "", value |-> NoneList]
    ELSE ParseLines(<<>>, EmptyItem, Tail(text))

\* -------------------------------------------------------- prune_m3u_entries
\* The selection loop: the streams whose lower-cased group_title is in
\* groups, or the exception that .lower() raises on None.
RECURSIVE PruneLoop(_, _)
PruneLoop(entries, groups) ==
    IF entries = <<>> THEN [raised |-> "", value |-> <<>>]
    ELSE LET stream == Head(entries)
         IN  IF stream.group_title = NoneVal
             THEN [raised |-> "AttributeError", value |-> NoneList]
             ELSE LET rest == PruneLoop(Tail(entries), groups)
                  IN  IF rest.raised # "" THEN rest
                      ELSE IF Lower(stream.group_title) \in groups
                      THEN [raised |-> "", value |-> <<stream>> \o rest.value]
                      ELSE rest

\* Where a stable ascending sort puts e among the already sorted ones: after
\* every element whose key is not greater.
RECURSIVE InsertByKey(_, _)
InsertByKey(sorted, e) ==
    IF sorted = <<>> THEN <<e>>
    ELSE IF KeyLess(e.tvg_name, Head(sorted).tvg_name) THEN <<e>> \o sorted
    ELSE <<Head(sorted)>> \o InsertByKey(Tail(sorted), e)

\* sorted(entries, key=lambda entry: entry.tvg_name)
RECURSIVE Sorted(_)
Sorted(entries) ==
    IF entries = <<>> THEN <<>>
    ELSE InsertByKey(Sorted(SubSeq(entries, 1, Len(entries) - 1)),
                     entries[Len(entries)])

prune_m3u_entries(a, entries) ==
    IF entries = NoneList THEN [raised |-> "TypeError", value |-> NoneList]
    ELSE LET pruned == PruneLoop(entries, a.groups)
         IN  IF pruned.raised # "" THEN pruned
             ELSE IF a.sortchannels
             THEN [raised |-> "", value |-> Sorted(pruned.value)]
             ELSE pruned

\* ------------------------------------------------------------- save_new_m3u
\* The metadata line written for one entry.
ExtinfLine(e) ==
    EXTINF_OUT \o SPACE \o RE_TVG_NAME \o Str(e.tvg_name) \o QUOTE
        \o SPACE \o RE_TVG_ID \o Str(e.tvg_id) \o QUOTE
        \o SPACE \o RE_TVG_LOGO \o Str(e.tvg_logo) \o QUOTE
        \o SPACE \o RE_GROUP_TITLE \o Str(e.group_title) \o QUOTE
        \o COMMA \o Str(e.name)

RECURSIVE EntryLines(_)
EntryLines(entries) ==
    IF entries = <<>> THEN <<>>
    ELSE <<ExtinfLine(Head(entries)), Str(Head(entries).url)>>
            \o EntryLines(Tail(entries))

\* The lines of the file save_new_m3u writes.
save_new_m3u(entries) == <<HEADER>> \o EntryLines(entries)

\* ----------------------------------------------------------- create_new_epg
\* An element of the guide is [tag, attr, body, nested]: attr is the id of a
\* channel or the channel of a programme (NoneVal when the attribute is
\* absent), body stands for the element's children, and nested tells an
\* element below the root's children from a child of the root.
Copy(e) == [tag |-> e.tag, attr |-> e.attr, body |-> e.body, nested |-> FALSE]

\* A test that some entry has a channel id at all.
AnyEntryHasSomeId(entries, channel_id) ==
    \E i \in 1..Len(entries) : entries[i].tvg_id # <<>>

\* A test against the first entry only.
FirstEntryHasId(entries, channel_id) ==
    entries # <<>> /\ entries[1].tvg_id = channel_id

\* any(x.tvg_id == channel_id for x in m3u_entries)
AnyEntryHasId(entries, channel_id) ==
    \E i \in 1..Len(entries) : entries[i].tvg_id = channel_id

\* The first loop: original_root.iter finds the channel elements at every
\* depth, in document order.
RECURSIVE ChannelCopies(_, _)
ChannelCopies(guide, entries) ==
    IF guide = <<>> THEN <<>>
    ELSE LET channel == Head(guide)
         IN  (IF channel.tag = "channel" /\ AnyEntryHasId(entries, channel.attr)
              THEN <<Copy(channel)>> ELSE <<>>)
             \o ChannelCopies(Tail(guide), entries)

\* original_tree.iterfind of programme with the channel attribute equal to
\* tvg_id: the matching children of the root, in document order.
RECURSIVE ProgrammesFor(_, _)
ProgrammesFor(guide, tvg_id) ==
    IF guide = <<>> THEN <<>>
    ELSE LET elem == Head(guide)
         IN  (IF elem.tag = "programme" /\ ~elem.nested /\ elem.attr = tvg_id
              THEN <<Copy(elem)>> ELSE <<>>)
             \o ProgrammesFor(Tail(guide), tvg_id)

\* A second loop driven by the guide: every programme of the source whose
\* channel some entry has, once, in document order.
RECURSIVE ProgrammeCopiesGuideOrder(_, _)
ProgrammeCopiesGuideOrder(guide, entries) ==
    IF guide = <<>> THEN <<>>
    ELSE LET elem == Head(guide)
         IN  (IF /\ elem.tag = "programme"
                 /\ ~elem.nested
                 /\ elem.attr # NONE_STR
                 /\ AnyEntryHasId(entries, elem.attr)
              THEN <<Copy(elem)>> ELSE <<>>)
             \o ProgrammeCopiesGuideOrder(Tail(guide), entries)

\* The second loop, over the entries.
RECURSIVE ProgrammeCopies(_, _)
ProgrammeCopies(guide, entries) ==
    IF entries = <<>> THEN <<>>
    ELSE LET e == Head(entries)
         IN  (IF e.tvg_id # NoneVal /\ e.tvg_id # <<>> /\ e.tvg_id # NONE_STR
              THEN ProgrammesFor(guide, e.tvg_id) ELSE <<>>)
             \o ProgrammeCopies(guide, Tail(entries))

\* The children of the new root.
create_new_epg(guide, entries) ==
    ChannelCopies(guide, entries) \o ProgrammeCopies(guide, entries)

\* ------------------------------------------------------------------ inputs
\* A metadata line as the playlists this script was written for lay it out.
MetaLine(ti, tn, tl, gt, nm) ==
    EXTINF_SEP \o RE_TVG_ID \o ti \o QUOTE
        \o SPACE \o RE_TVG_NAME \o tn \o QUOTE
        \o SPACE \o RE_TVG_LOGO \o tl \o QUOTE
        \o SPACE \o RE_GROUP_TITLE \o gt \o QUOTE
        \o COMMA \o nm

ID_C1 == <<"c", "1">>
ID_C2 == <<"c", "2">>
GROUP_NEWS == <<"n", "e", "w", "s">>
GROUP_X == <<"x">>

\* tvg-name b, group News, display name with a second comma after a space
LineA == MetaLine(ID_C1, <<"b">>, <<>>, <<"N", "e", "w", "s">>, <<"A", " ", ",", "B">>)
\* tvg-name a, the same channel id
LineB == MetaLine(ID_C1, <<"a">>, <<>>, GROUP_NEWS, <<"C">>)
\* tvg-name a, another channel id
LineC == MetaLine(ID_C2, <<"a">>, <<>>, GROUP_NEWS, <<"C">>)
\* tvg-name a, no channel id, another group
LineD == MetaLine(<<>>, <<"a">>, <<>>, GROUP_X, <<"D">>)
\* the channel id that stands for no guide data
LineE == MetaLine(NONE_STR, <<"c">>, <<>>, GROUP_NEWS, <<"E">>)
\* an entry marker without the tvg-id attribute
LineNoId ==
    EXTINF_SEP \o RE_TVG_NAME \o <<"a">> \o QUOTE
        \o SPACE \o RE_TVG_LOGO \o QUOTE
        \o SPACE \o RE_GROUP_TITLE \o GROUP_NEWS \o QUOTE
        \o COMMA \o <<"C">>
LineUrl == <<"u", "1">>
LineBlank == <<" ">>

\* The lines a playlist is made of, after its first.
Lines == {LineA, LineD, LineNoId, LineUrl, LineBlank}

\* The first line of a playlist: the header, the header with more text after
\* it, and two files that begin without it.
FirstLines == {HEADER, HEADER \o <<" ", "x">>, LineA, LineUrl}

RECURSIVE SeqsUpTo(_, _)
SeqsUpTo(S, n) ==
    IF n = 0 THEN {<<>>}
    ELSE LET shorter == SeqsUpTo(S, n - 1)
         IN  shorter \cup {Append(q, x) : q \in {r \in shorter : Len(r) = n - 1}, x \in S}

\* The playlists a download can deliver: the empty file, or a first line
\* and up to MaxLines lines after it.
Texts == {<<>>} \cup {<<h>> \o ls : h \in FirstLines, ls \in SeqsUpTo(Lines, MaxLines)}

GroupSets == {{GROUP_NEWS}, {GROUP_NEWS, GROUP_X}}

Elem(t, a, b, n) == [tag |-> t, attr |-> a, body |-> b, nested |-> n]

Elems ==
    {Elem("channel", ID_C1, "d1", FALSE),
     Elem("channel", ID_C2, "d2", TRUE),
     Elem("programme", ID_C1, "p1", FALSE),
     Elem("programme", ID_C1, "p2", FALSE),
     Elem("programme", ID_C2, "p3", FALSE),
     Elem("programme", ID_C1, "p4", TRUE),
     Elem("programme", NONE_STR, "p5", FALSE)}

\* The guide documents: the elements below the root in document order.
Guides == SeqsUpTo(Elems, MaxElems)

\* ------------------------------------------------------------------- state
VARIABLES
    pc,            \* where main() is
    args,          \* the validated arguments: groups, sortchannels
    m3u_file,      \* original.m3u as parse_m3u reads it: NoFile before it
                   \* is saved, its unread lines while open, Closed after
    parsed,        \* parse_m3u: its local list m3u_entries
    entry,         \* parse_m3u: the entry under construction
    m3u_entries,   \* main: m3u_entries
    new_m3u,       \* the lines of the written playlist, or NoFile
    original_epg,  \* the extracted guide original.xml
    xml_tree,      \* main: xml_tree, the children of the new root
    new_epg,       \* the written guide, or NoFile
    error          \* the exception that ended the run, "" when none did

vars == <<pc, args, m3u_file, parsed, entry, m3u_entries, new_m3u,
          original_epg, xml_tree, new_epg, error>>

Init ==
    /\ pc = "validate_args"
    /\ args = Unbound
    /\ m3u_file = NoFile
    /\ parsed = Unbound
    /\ entry = Unbound
    /\ m3u_entries = Unbound
    /\ new_m3u = NoFile
    /\ original_epg = Unbound
    /\ xml_tree = Unbound
    /\ new_epg = NoFile
    /\ error = ""

\* An uncaught exception ends the run; the frame of parse_m3u is gone.
Crash(exc) ==
    /\ pc' = "crashed"
    /\ error' = exc
    /\ m3u_file' = (IF m3u_file = NoFile THEN NoFile ELSE Closed)
    /\ parsed' = Unbound
    /\ entry' = Unbound

\* validate_args: every mandatory argument is given.
ValidateArgs ==
    /\ pc = "validate_args"
    /\ \E g \in GroupSets, s \in BOOLEAN :
          args' = [groups |-> g, sortchannels |-> s]
    /\ pc' = "load_m3u"
    /\ UNCHANGED <<m3u_file, parsed, entry, m3u_entries, new_m3u,
                   original_epg, xml_tree, new_epg, error>>

\* validate_args: an argument is missing and abort_process exits.
ValidateArgsAbort ==
    /\ pc = "validate_args"
    /\ pc' = "exit"
    /\ UNCHANGED <<args, m3u_file, parsed, entry, m3u_entries, new_m3u,
                   original_epg, xml_tree, new_epg, error>>

\* load_m3u: the download; on status 200 the response is saved and
\* parse_m3u opens it, otherwise load_m3u returns None.
LoadM3u ==
    /\ pc = "load_m3u"
    /\ \E status \in {HTTP_OK, 404}, text \in Texts :
          IF status = HTTP_OK
          THEN /\ m3u_file' = text
               /\ pc' = "parse_header"
               /\ UNCHANGED m3u_entries
          ELSE /\ text = <<>>
               /\ m3u_entries' = NoneList
               /\ pc' = "prune"
               /\ UNCHANGED m3u_file
    /\ UNCHANGED <<args, parsed, entry, new_m3u, original_epg, xml_tree,
                   new_epg, error>>

\* parse_m3u: the first line is read and tested.
ParseHeader ==
    /\ pc = "parse_header"
    /\ IF HeaderOk(ReadLine(m3u_file))
       THEN /\ m3u_file' = Tail(m3u_file)
            /\ parsed' = <<>>
            /\ entry' = EmptyItem
            /\ pc' = "parse"
            /\ UNCHANGED m3u_entries
       ELSE /\ m3u_file' = Closed
            /\ m3u_entries' = NoneList
            /\ pc' = "prune"
            /\ UNCHANGED <<parsed, entry>>
    /\ UNCHANGED <<args, new_m3u, original_epg, xml_tree, new_epg, error>>

\* parse_m3u: one iteration of the loop over the remaining lines.
ParseLine ==
    /\ pc = "parse"
    /\ m3u_file # <<>>
    /\ LET r == ParseLineStep(parsed, entry, Head(m3u_file))
       IN  IF r.raised # ""
           THEN /\ Crash(r.raised)
           ELSE /\ parsed' = r.acc
                /\ entry' = r.cur
                /\ m3u_file' = Tail(m3u_file)
                /\ UNCHANGED <<pc, error>>
    /\ UNCHANGED <<args, m3u_entries, new_m3u, original_epg, xml_tree, new_epg>>

\* parse_m3u: the lines are used up; the file is closed and the list
\* returned to main through load_m3u.
ParseEnd ==
    /\ pc = "parse"
    /\ m3u_file = <<>>
    /\ m3u_entries' = parsed
    /\ m3u_file' = Closed
    /\ parsed' = Unbound
    /\ entry' = Unbound
    /\ pc' = "prune"
    /\ UNCHANGED <<args, new_m3u, original_epg, xml_tree, new_epg, error>>

\* main: m3u_entries = prune_m3u_entries(args, m3u_entries)
Prune ==
    /\ pc = "prune"
    /\ LET r == prune_m3u_entries(args, m3u_entries)
       IN  IF r.raised # ""
           THEN /\ Crash(r.raised)
                /\ UNCHANGED m3u_entries
           ELSE /\ m3u_entries' = r.value
                /\ pc' = "save_new_m3u"
                /\ UNCHANGED <<m3u_file, parsed, entry, error>>
    /\ UNCHANGED <<args, new_m3u, original_epg, xml_tree, new_epg>>

\* main: the test of m3u_entries against None, and save_new_m3u.
SaveNewM3u ==
    /\ pc = "save_new_m3u"
    /\ IF m3u_entries # NoneList
       THEN /\ new_m3u' = save_new_m3u(m3u_entries)
            /\ pc' = "load_epg"
       ELSE /\ pc' = "done"
            /\ UNCHANGED new_m3u
    /\ UNCHANGED <<args, m3u_file, parsed, entry, m3u_entries, original_epg,
                   xml_tree, new_epg, error>>

\* load_epg: the download; on status 200 the guide is saved and extracted,
\* otherwise load_epg returns None and main is done.
LoadEpg ==
    /\ pc = "load_epg"
    /\ \E status \in {HTTP_OK, 404}, guide \in Guides \cup {Malformed} :
          IF status = HTTP_OK
          THEN /\ original_epg' = guide
               /\ pc' = "create_new_epg"
          ELSE /\ guide = <<>>
               /\ original_epg' = NoneList
               /\ pc' = "done"
    /\ UNCHANGED <<args, m3u_file, parsed, entry, m3u_entries, new_m3u,
                   xml_tree, new_epg, error>>

\* main: xml_tree = create_new_epg(epg_filename, m3u_entries)
CreateNewEpg ==
    /\ pc = "create_new_epg"
    /\ IF original_epg = Malformed
       THEN /\ Crash("ParseError")
            /\ UNCHANGED xml_tree
       ELSE /\ xml_tree' = create_new_epg(original_epg, m3u_entries)
            /\ pc' = "save_new_epg"
            /\ UNCHANGED <<m3u_file, parsed, entry, error>>
    /\ UNCHANGED <<args, m3u_entries, new_m3u, original_epg, new_epg>>

\* main: save_new_epg(args, xml_tree)
SaveNewEpg ==
    /\ pc = "save_new_epg"
    /\ new_epg' = xml_tree
    /\ pc' = "done"
    /\ UNCHANGED <<args, m3u_file, parsed, entry, m3u_entries, new_m3u,
                   original_epg, xml_tree, error>>

Next ==
    \/ ValidateArgs
    \/ ValidateArgsAbort
    \/ LoadM3u
    \/ ParseHeader
    \/ ParseLine
    \/ ParseEnd
    \/ Prune
    \/ SaveNewM3u
    \/ LoadEpg
    \/ CreateNewEpg
    \/ SaveNewEpg

Spec == Init /\ [][Next]_vars

\* ------------------------------------------- the functions on their own
\* The record parse_m3u makes of a metadata line and the line after it.
RecordOf(meta) == ParseLines(<<>>, EmptyItem, <<meta, LineUrl>>).value[1]

\* The record parse_m3u makes of a line that no metadata line precedes.
StrayRecord == ParseLines(<<>>, EmptyItem, <<LineUrl>>).value[1]

\* What the parser can hand to the filter.
ParsedRecords == {RecordOf(LineA), RecordOf(LineB), RecordOf(LineD), StrayRecord}

\* What the filter can hand on: records of a wanted group.
KeptRecords == {RecordOf(LineA), RecordOf(LineB), RecordOf(LineC), RecordOf(LineE)}

\* prune_m3u_entries and save_new_m3u on any list the parser can return.
InitFilter ==
    /\ pc = "prune"
    /\ \E g \in GroupSets, s \in BOOLEAN :
          args = [groups |-> g, sortchannels |-> s]
    /\ m3u_file = Closed
    /\ parsed = Unbound
    /\ entry = Unbound
    /\ m3u_entries \in SeqsUpTo(ParsedRecords, MaxRecords)
    /\ new_m3u = NoFile
    /\ original_epg = Unbound
    /\ xml_tree = Unbound
    /\ new_epg = NoFile
    /\ error = ""

NextFilter == Prune \/ SaveNewM3u

SpecFilter == InitFilter /\ [][NextFilter]_vars

\* create_new_epg and save_new_epg on any filtered list and any guide.
InitEpg ==
    /\ pc = "create_new_epg"
    /\ args = [groups |-> {GROUP_NEWS}, sortchannels |-> FALSE]
    /\ m3u_file = Closed
    /\ parsed = Unbound
    /\ entry = Unbound
    /\ m3u_entries \in SeqsUpTo(KeptRecords, MaxRecords)
    /\ new_m3u = save_new_m3u(m3u_entries)
    /\ original_epg \in Guides
    /\ xml_tree = Unbound
    /\ new_epg = NoFile
    /\ error = ""

NextEpg == CreateNewEpg \/ SaveNewEpg

SpecEpg == InitEpg /\ [][NextEpg]_vars

\* ------------------------------------------------------------ properties
\* A record with its attributes, display name and url set.
Complete(r) ==
    /\ r.tvg_name # NoneVal
    /\ r.tvg_id # NoneVal
    /\ r.tvg_logo # NoneVal
    /\ r.group_title # NoneVal
    /\ r.name # NoneVal
    /\ r.url # NoneVal

AfterPrune == {"save_new_m3u", "load_epg", "create_new_epg", "save_new_epg", "done"}

\* The records of R whose lower-cased group is in G, in the order of R.
Selected(R, G) ==
    LET Wanted(r) == Lower(r.group_title) \in G
    IN  SelectSeq(R, Wanted)

\* C1: with the sort flag unset, the filter applied to a list of records
\* returns exactly the records whose lower-cased groupName is in the group
\* set, as often as they occur and in their original order.
C1_FilterSelects ==
    [][(pc = "prune" /\ m3u_entries # NoneList /\ ~args.sortchannels)
          => (pc' = "save_new_m3u"
              /\ m3u_entries' = Selected(m3u_entries, args.groups))]_vars

\* out holds the records of in, ascending by tvg_name, and records of equal
\* tvg_name in the order they have in in.
IsStableSortOf(out, in) ==
    /\ Len(out) = Len(in)
    /\ \E p \in [1..Len(in) -> 1..Len(in)] :
          /\ \A i, j \in 1..Len(in) : i # j => p[i] # p[j]
          /\ \A i \in 1..Len(in) : out[i] = in[p[i]]
          /\ \A i, j \in 1..Len(in) :
                i < j => /\ ~KeyLess(out[j].tvg_name, out[i].tvg_name)
                         /\ (out[i].tvg_name = out[j].tvg_name => p[i] < p[j])

\* C8: with the sort flag set, the filter returns the selected records
\* ordered by tvgName ascending, records of equal tvgName in input order.
C8_FilterSortsStably ==
    [][(pc = "prune" /\ m3u_entries # NoneList /\ args.sortchannels)
          => (pc' = "save_new_m3u"
              /\ IsStableSortOf(m3u_entries', Selected(m3u_entries, args.groups)))]_vars

AllComplete == \A i \in 1..Len(m3u_entries) : Complete(m3u_entries[i])

\* On a list of complete records the filter returns the selection, sorted
\* stably when the flag is set (C1 and C8 restricted to complete records).
FilterOnCompleteRecords ==
    [][(pc = "prune" /\ m3u_entries # NoneList /\ AllComplete)
          => /\ pc' = "save_new_m3u"
             /\ ~args.sortchannels
                   => m3u_entries' = Selected(m3u_entries, args.groups)
             /\ args.sortchannels
                   => IsStableSortOf(m3u_entries', Selected(m3u_entries, args.groups))]_vars

\* On a list with a record that no entry-marker line started, the filter
\* raises.
FilterOnIncompleteRecord ==
    [][(pc = "prune" /\ m3u_entries # NoneList /\ ~AllComplete)
          => (pc' = "crashed" /\ error' = "AttributeError")]_vars

\* C3: when the filter result is empty the guide stage is skipped: the guide
\* is not loaded, the correlator does not run, no guide is written.
C3_EmptyFilterSkipsGuide ==
    (pc \in AfterPrune /\ m3u_entries = <<>>)
        => /\ pc \notin {"create_new_epg", "save_new_epg"}
           /\ original_epg = Unbound
           /\ xml_tree = Unbound
           /\ new_epg = NoFile

\* C4: parsing the written playlist gives back the records that were written.
C4_RoundTrip ==
    new_m3u # NoFile
        => LET again == parse_m3u(new_m3u)
           IN  again.raised = "" /\ again.value = m3u_entries

\* What every state after a header failure looks like: no list of records,
\* the run stopped in the filter or about to, nothing written.
NoStageOnNone ==
    m3u_entries' = NoneList
        => /\ pc' \in {"prune", "crashed"}
           /\ new_m3u' = NoFile
           /\ original_epg' = Unbound
           /\ xml_tree' = Unbound
           /\ new_epg' = NoFile

\* What a parse that reaches the end of a headed file returns is a list,
\* which None is not.
ListOnSuccess ==
    (pc = "parse" /\ pc' = "prune")
        => (m3u_entries' # NoneList /\ m3u_entries' = parsed)

\* C5, as stated: a first line other than the header line itself makes the
\* parse return no list of records, which differs from the empty list of a
\* headed playlist without records, and no later stage works on records.
C5_HeaderLiteral ==
    [][/\ (pc = "parse_header" /\ ReadLine(m3u_file) # HEADER)
            => (m3u_entries' = NoneList /\ parsed' = Unbound)
       /\ NoStageOnNone
       /\ ListOnSuccess]_vars

\* C5, amended: a first line that does not begin with the header makes the
\* parse return no list of records, which differs from the empty list of a
\* headed playlist without records, and no later stage works on records.
C5_HeaderPrefix ==
    [][/\ (pc = "parse_header" /\ ~StartsWith(ReadLine(m3u_file), HEADER))
            => (m3u_entries' = NoneList /\ parsed' = Unbound)
       /\ NoStageOnNone
       /\ ListOnSuccess]_vars

\* The run ended in the filter on the None that a failed header test
\* returned; original.m3u had been saved and opened.
C5_Witness ==
    /\ pc = "crashed"
    /\ error = "TypeError"
    /\ m3u_entries = NoneList
    /\ m3u_file = Closed
    /\ new_m3u = NoFile

Labels == {RE_TVG_NAME, RE_TVG_ID, RE_TVG_LOGO, RE_GROUP_TITLE}

\* The label, its equals sign and the opening quote occur in the line.
HasLabel(line, k) ==
    \E i \in 1..Len(line) :
        i + Len(k) - 1 <= Len(line) /\ SubSeq(line, i, i + Len(k) - 1) = k

IsMarker(line) == StartsWith(Strip(line), EXTINF)

\* C6: an entry-marker line that lacks one of the four labelled attributes
\* ends the parse in an exception: no record is returned, the ones completed
\* before that line included, and nothing is written.
C6_MissingAttributeFails ==
    [][(/\ pc = "parse"
        /\ m3u_file # <<>>
        /\ IsMarker(Head(m3u_file))
        /\ \E k \in Labels : ~HasLabel(Head(m3u_file), k))
          => /\ pc' = "crashed"
             /\ error' \in {"AttributeError", "IndexError"}
             /\ parsed' = Unbound
             /\ m3u_entries' = Unbound
             /\ new_m3u' = NoFile
             /\ new_epg' = NoFile]_vars

\* The parse ended in the exception of a search that matched nothing.
C6_Witness ==
    /\ pc = "crashed"
    /\ error = "AttributeError"
    /\ m3u_entries = Unbound
    /\ parsed = Unbound

\* C7: every record of the parser's list, while it parses and when it
\* returns, has its four attributes and display name from an entry-marker
\* line and its url from a later line.
C7_RecordsComplete ==
    /\ pc = "parse" => \A i \in 1..Len(parsed) : Complete(parsed[i])
    /\ (pc = "prune" /\ m3u_entries # NoneList)
          => \A i \in 1..Len(m3u_entries) : Complete(m3u_entries[i])

RetainedId(id) == \E r \in 1..Len(m3u_entries) : m3u_entries[r].tvg_id = id

\* C2: every programme and every channel of the new guide carries the
\* channelId of a retained record, and no channel or programme of the source
\* whose id no retained record has is in the new guide.
C2_OutputMatchesRetained ==
    xml_tree # Unbound
        => /\ \A i \in 1..Len(xml_tree) :
                /\ xml_tree[i].tag \in {"channel", "programme"}
                /\ RetainedId(xml_tree[i].attr)
           /\ \A s \in 1..Len(original_epg) :
                ~RetainedId(original_epg[s].attr)
                    => ~\E i \in 1..Len(xml_tree) :
                           /\ xml_tree[i].tag = original_epg[s].tag
                           /\ xml_tree[i].attr = original_epg[s].attr
                           /\ xml_tree[i].body = original_epg[s].body

\* A new guide with a channel and a programme, from a source that also had
\* an element of a channel no record retains.
C2_Witness ==
    /\ xml_tree # Unbound
    /\ \E i, j \in 1..Len(xml_tree) :
          xml_tree[i].tag = "channel" /\ xml_tree[j].tag = "programme"
    /\ \E s \in 1..Len(original_epg) : ~RetainedId(original_epg[s].attr)

OutHasChannel(id) ==
    \E i \in 1..Len(xml_tree) : xml_tree[i].tag = "channel" /\ xml_tree[i].attr = id

SourceHasChannel(id) ==
    \E s \in 1..Len(original_epg) :
        original_epg[s].tag = "channel" /\ original_epg[s].attr = id

\* C9, as stated: every programme of the new guide has its channel element
\* in the new guide, and every channel of the new guide has a record.
C9_NoOrphans ==
    xml_tree # Unbound
        => \A i \in 1..Len(xml_tree) :
              /\ xml_tree[i].tag = "programme" => OutHasChannel(xml_tree[i].attr)
              /\ xml_tree[i].tag = "channel" => RetainedId(xml_tree[i].attr)

\* C9, amended: every programme of the new guide whose channel the source
\* defines has its channel element in the new guide, and every channel of
\* the new guide has a record.
C9_NoOrphansOfDefinedChannels ==
    xml_tree # Unbound
        => \A i \in 1..Len(xml_tree) :
              /\ (xml_tree[i].tag = "programme" /\ SourceHasChannel(xml_tree[i].attr))
                    => OutHasChannel(xml_tree[i].attr)
              /\ xml_tree[i].tag = "channel" => RetainedId(xml_tree[i].attr)

\* A new guide for two records of different channels, with a programme of
\* the second record's channel and that channel's element.
C9_Witness ==
    /\ xml_tree # Unbound
    /\ Len(m3u_entries) = 2
    /\ m3u_entries[1].tvg_id # m3u_entries[2].tvg_id
    /\ \E i, j \in 1..Len(xml_tree) :
          /\ xml_tree[i].tag = "channel"
          /\ xml_tree[j].tag = "programme"
          /\ xml_tree[i].attr = m3u_entries[2].tvg_id
          /\ xml_tree[j].attr = m3u_entries[2].tvg_id

\* The Programme Entries of the source are the programme children of its
\* root.  A pair is a record with a channel id that is none of the three
\* values for no id, and a Programme Entry of that channel.
ProgPairs ==
    {p \in (1..Len(m3u_entries)) \X (1..Len(original_epg)) :
        /\ m3u_entries[p[1]].tvg_id \notin {NoneVal, <<>>, NONE_STR}
        /\ original_epg[p[2]].tag = "programme"
        /\ ~original_epg[p[2]].nested
        /\ original_epg[p[2]].attr = m3u_entries[p[1]].tvg_id}

\* Record order first, source order second.
PairBefore(p, q) == p[1] < q[1] \/ (p[1] = q[1] /\ p[2] < q[2])

Rank(p) == 1 + Cardinality({q \in ProgPairs : PairBefore(q, p)})

OutProgrammes ==
    LET IsProgramme(e) == e.tag = "programme"
    IN  SelectSeq(xml_tree, IsProgramme)

\* C10: the programmes of the new guide are, record by record in the order
\* of the filtered list and leaving out the records without a channel id,
\* the copies of the source's Programme Entries of that record's channel in
\* source order, so once per record that has the channel; and they all
\* follow the channels.
C10_ProgrammeSequence ==
    xml_tree # Unbound
        => /\ Len(OutProgrammes) = Cardinality(ProgPairs)
           /\ \A p \in ProgPairs :
                /\ OutProgrammes[Rank(p)].attr = original_epg[p[2]].attr
                /\ OutProgrammes[Rank(p)].body = original_epg[p[2]].body
           /\ \A i, j \in 1..Len(xml_tree) :
                i < j => ~(xml_tree[i].tag = "programme" /\ xml_tree[j].tag = "channel")

\* Two records of one channel and two Programme Entries of it: four copies,
\* after a channel element.
C10_Witness ==
    /\ xml_tree # Unbound
    /\ Len(m3u_entries) = 2
    /\ m3u_entries[1] # m3u_entries[2]
    /\ m3u_entries[1].tvg_id = m3u_entries[2].tvg_id
    /\ Len(OutProgrammes) = 4
    /\ OutProgrammes[1].body # OutProgrammes[2].body
    /\ xml_tree[1].tag = "channel"

====
